---------------------------- MODULE Spec2Model ----------------------------
(***************************************************************************)
(* A model of two parts of deal.II:                                        *)
(*   - the sparse direct solver wrappers SparseDirectUMFPACK and           *)
(*     SparseDirectMUMPS (deal.II/source/lac/sparse_direct.cc), and        *)
(*   - the update-flag logic, the JxW computation and the transform        *)
(*     dispatch of MappingQGeneric (source/fe/mapping_q_generic.cc).       *)
(*                                                                         *)
(* The checks of the library (the debug-mode check macro of                *)
(* base/exceptions.h and the always-on AssertThrow) are modelled as        *)
(* active: a failed check ends the call at that statement and records the  *)
(* exception's name.  Indices and array contents are kept 0-based as in    *)
(* the C++ code; a C++ array x is the sequence with x[i] stored at         *)
(* position i+1, read with At(x, i).                                       *)
(***************************************************************************)
EXTENDS Integers, Sequences, FiniteSets, TLC

(***************************************************************************)
(* Bounds of the model.                                                    *)
(***************************************************************************)
\* largest matrix dimension of the solver life-cycle specifications
MaxSolverN == 2
\* largest matrix dimension of the factorization (sorting) specification
MaxN == 3
\* number of quadrature points
MaxQ == 2
\* largest height of a cell's upper vertices
MaxH == 3
\* largest number of unit points of a shape function table
MaxPoints == 1

At(x, i) == x[i + 1]

Put(x, i, v) == [x EXCEPT ![i + 1] = v]

Range(s) == {s[i] : i \in DOMAIN s}

RECURSIVE AscSeq(_)
\* the elements of a finite set of integers as an ascending sequence
AscSeq(S) ==
  IF S = {} THEN <<>>
  ELSE LET lo == CHOOSE x \in S : \A y \in S : x <= y
       IN  <<lo>> \o AscSeq(S \ {lo})

(***************************************************************************)
(* SparseMatrix<number> as the solver wrappers read it: m(), n() and, per  *)
(* row, the entries in the order the row iterator visits them.  A square   *)
(* matrix stores the diagonal entry first in each row and the others in    *)
(* ascending column order; a non-square matrix stores all entries in       *)
(* ascending column order.                                                 *)
(***************************************************************************)
ValueSchemes == {"tagged", "zero", "mixed"}

\* the value stored at (row, col): distinct nonzero tags, all zeros, or
\* zeros off the diagonal only
EntryValue(scheme, n, row, col) ==
  CASE scheme = "tagged" -> 1 + row * n + col
    [] scheme = "zero"   -> 0
    [] OTHER             -> IF row = col THEN 1 + row * n + col ELSE 0

RowEntries(scheme, n, row, cols) ==
  [k \in 1..Len(cols) |->
     [column |-> cols[k], value |-> EntryValue(scheme, n, row, cols[k])]]

\* square matrices of dimension n: per row the diagonal, then any subset of
\* the other columns, ascending
SquareMatrices(n, scheme) ==
  { [m |-> n, n |-> n,
     rows |-> [r \in 1..n |->
                 RowEntries(scheme, n, r - 1, <<r - 1>> \o AscSeq(f[r]))]] :
    f \in {g \in [1..n -> SUBSET (0..(n - 1))] : \A r \in 1..n : (r - 1) \notin g[r]} }

\* non-square matrices: every row stores all of its columns, ascending
NonSquareMatrices(maxn) ==
  { [m |-> mm, n |-> nn,
     rows |-> [r \in 1..mm |->
                 RowEntries("tagged", nn, r - 1, AscSeq(0..(nn - 1)))]] :
    <<mm, nn>> \in {p \in (1..maxn) \X (1..maxn) : p[1] # p[2]} }

NoMatrix == [m |-> 0, n |-> 0, rows |-> <<>>]

get_row_length(matrix, row) == Len(matrix.rows[row + 1])

RECURSIVE n_nonzero_elements_upto(_, _)
n_nonzero_elements_upto(matrix, r) ==
  IF r = 0 THEN 0
  ELSE n_nonzero_elements_upto(matrix, r - 1) + get_row_length(matrix, r - 1)

n_nonzero_elements(matrix) == n_nonzero_elements_upto(matrix, matrix.m)

(***************************************************************************)
(* Vector<double>: the vectors of size n the model works with, two          *)
(* distinguishable contents per size.                                      *)
(***************************************************************************)
VectorsOf(n) == {[k \in 1..n |-> 0], [k \in 1..n |-> 1]}

VARIABLES
  \* the caller's data
  matrix,                     \* the caller's square system matrix
  dst, src,                   \* the caller's vectors
  \* SparseDirectUMFPACK
  Ap, Ai, Ax,                 \* the compressed row arrays handed to UMFPACK
  symbolic_decomposition,     \* 0 or a handle
  numeric_decomposition,      \* 0 or a handle
  umf_op,                     \* the last member function called
  umf_exc,                    \* the exception it ended with, or "none"
  umf_solve_reached,          \* whether it called umfpack_dl_solve
  umf_arg_square,             \* whether its matrix argument, if any, had
                              \* m() == n()
  factorize_done,             \* a factorize() got past its check since
                              \* construction or the last clear()
  copied,                     \* the matrix whose rows Ap, Ai, Ax were last
                              \* filled from (NoMatrix: none)
  \* SparseDirectMUMPS
  initialize_called,
  n, nz,                      \* -1: not yet assigned
  a, irn, jcn,                \* the triplet arrays (empty before new[])
  rhs,                        \* [state, data]: the right hand side array
  id_job,                     \* id.job of the last dmumps_c call (0: none)
  mumps_instances,            \* number of dmumps_c calls with job -1
  mumps_allocations,          \* number of times a, irn, jcn were allocated
  mumps_op,                   \* the last member function called
  mumps_exc,                  \* the exception it ended with, or "none"
  mumps_job_ran,              \* whether it called dmumps_c
  \* MappingQGeneric and the InternalData object made by get_data
  in_flags,                   \* the update flags the caller asks for
  data_made,                  \* whether get_data has run
  update_each,                \* InternalData::update_each
  covariant, contravariant,   \* InternalData arrays, one entry per point
  volume_elements,
  shape_derivatives,          \* InternalData::shape_derivatives, per point and shape function
  mapping_support_points,     \* InternalData::mapping_support_points
  cell_of_current_support_points,
  weights,                    \* the weights of the quadrature formula
  cell,                       \* the cell last passed to fill_fe_values
  JxW_values,                 \* output_data.JxW_values
  fill_similarity,            \* the cell_similarity last passed, or "not_called"
  fill_exc,                   \* the exception fill_fe_values ended with, or "none"
  \* the shape function tables of an InternalData object of degree 1
  table_dim,                  \* its dim (and spacedim)
  table_points,               \* the unit points handed to compute_shape_function_values
  table_sized,                \* the tables that were resized before the call
  tables_filled,              \* whether compute_shape_function_values has run
  shape_values,               \* InternalData::shape_values, per point and shape function
  shape_second_derivatives,
  shape_third_derivatives,
  shape_fourth_derivatives,
  tr_overload,                \* the transform overload last called
  tr_mapping_type,            \* its mapping_type argument
  tr_exc,                     \* the exception it ended with, or "none"
  tr_field,                   \* the field an ExcAccessToUninitializedField names
  tr_reads,                   \* the InternalData arrays it read
  tr_written                  \* whether it wrote to output

callerVars == <<matrix, dst, src>>

umfVars == <<Ap, Ai, Ax, symbolic_decomposition, numeric_decomposition,
             umf_op, umf_exc, umf_solve_reached, umf_arg_square,
             factorize_done, copied>>

mumpsVars == <<initialize_called, n, nz, a, irn, jcn, rhs, id_job,
               mumps_instances, mumps_allocations, mumps_op, mumps_exc,
               mumps_job_ran>>

dataVars == <<in_flags, data_made, update_each, covariant, contravariant,
              volume_elements, shape_derivatives, mapping_support_points,
              cell_of_current_support_points>>

fillVars == <<weights, cell, JxW_values, fill_similarity, fill_exc>>

transformVars == <<tr_overload, tr_mapping_type, tr_exc, tr_field, tr_reads,
                   tr_written>>

tableVars == <<table_dim, table_points, table_sized, tables_filled, shape_values,
               shape_second_derivatives, shape_third_derivatives,
               shape_fourth_derivatives>>

mapVars == <<dataVars, transformVars, fillVars, tableVars>>

vars == <<callerVars, umfVars, mumpsVars, mapVars>>

(***************************************************************************)
(* SparseDirectUMFPACK                                                     *)
(***************************************************************************)
UMFPACK_OK == 0

UmfpackStatus == {UMFPACK_OK, -1}

\* SparseDirectUMFPACK::clear: both decompositions freed, the arrays emptied
clear_result(cur) ==
  [cur EXCEPT !.Ap = <<>>, !.Ai = <<>>, !.Ax = <<>>,
              !.symbolic_decomposition = 0, !.numeric_decomposition = 0,
              !.factorize_done = FALSE, !.copied = NoMatrix]

RECURSIVE fill_Ap(_, _)
\* Ap[0] = 0; Ap[row] = Ap[row-1] + matrix.get_row_length(row-1)
fill_Ap(M, row) ==
  IF row = 0 THEN <<0>>
  ELSE LET prev == fill_Ap(M, row - 1)
       IN  Append(prev, At(prev, row - 1) + get_row_length(M, row - 1))

RECURSIVE copy_entries(_, _, _, _)
\* the loop over the rows and, in each row, over the iterator's entries:
\* each entry goes to the first free place of its row
copy_entries(M, row, p, arrs) ==
  IF row = M.m THEN arrs
  ELSE IF p > Len(M.rows[row + 1]) THEN copy_entries(M, row + 1, 1, arrs)
  ELSE LET e   == M.rows[row + 1][p]
           pos == At(arrs.row_pointers, row)
       IN  copy_entries(M, row, p + 1,
             [Ai |-> Put(arrs.Ai, pos, e.column),
              Ax |-> Put(arrs.Ax, pos, e.value),
              row_pointers |-> Put(arrs.row_pointers, row, pos + 1)])

\* the arrays after the copy and before the sort
copy_arrays(M) ==
  LET ap  == fill_Ap(M, M.m)
      nnz == n_nonzero_elements(M)
      res == copy_entries(M, 0, 1,
               [Ai |-> [k \in 1..nnz |-> 0], Ax |-> [k \in 1..nnz |-> 0],
                row_pointers |-> ap])
  IN  [Ap |-> ap, Ai |-> res.Ai, Ax |-> res.Ax]

\* a plausible slip: a single conditional swap instead of the loop
swap_once(arrs, cursor, row_end) ==
  IF cursor < row_end - 1 /\ At(arrs.Ai, cursor) > At(arrs.Ai, cursor + 1)
  THEN [arrs EXCEPT
          !.Ai = Put(Put(arrs.Ai, cursor, At(arrs.Ai, cursor + 1)),
                     cursor + 1, At(arrs.Ai, cursor)),
          !.Ax = Put(Put(arrs.Ax, cursor, At(arrs.Ax, cursor + 1)),
                     cursor + 1, At(arrs.Ax, cursor))]
  ELSE arrs

RECURSIVE swap_loop(_, _, _)
\* while (cursor < Ap[row+1]-1 && Ai[cursor] > Ai[cursor+1]) { swap; ++cursor }
swap_loop(arrs, cursor, row_end) ==
  IF cursor < row_end - 1 /\ At(arrs.Ai, cursor) > At(arrs.Ai, cursor + 1)
  THEN swap_loop(
         [arrs EXCEPT
            !.Ai = Put(Put(arrs.Ai, cursor, At(arrs.Ai, cursor + 1)),
                       cursor + 1, At(arrs.Ai, cursor)),
            !.Ax = Put(Put(arrs.Ax, cursor, At(arrs.Ax, cursor + 1)),
                       cursor + 1, At(arrs.Ax, cursor))],
         cursor + 1, row_end)
  ELSE arrs

\* the body of the row loop of sort_arrays(const SparseMatrix<number> &)
sort_row(arrs, row) == swap_loop(arrs, At(arrs.Ap, row), At(arrs.Ap, row + 1))

RECURSIVE sort_rows(_, _, _)
sort_rows(arrs, row, m) ==
  IF row = m THEN arrs ELSE sort_rows(sort_row(arrs, row), row + 1, m)

\* SparseDirectUMFPACK::sort_arrays (const SparseMatrix<number> &matrix)
sort_arrays(arrs, M) == sort_rows(arrs, 0, M.m)

\* the solver object's own state, as one record
UmfState ==
  [Ap |-> Ap, Ai |-> Ai, Ax |-> Ax,
   symbolic_decomposition |-> symbolic_decomposition,
   numeric_decomposition |-> numeric_decomposition,
   factorize_done |-> factorize_done, copied |-> copied, exc |-> "none"]

\* a plausible slip: clear() placed before the check of the matrix's shape
factorize_clear_first(cur, M, symbolic, numeric) ==
  IF M.m # M.n
  THEN [clear_result(cur) EXCEPT !.exc = "ExcNotQuadratic"]
  ELSE LET arrs == sort_arrays(copy_arrays(M), M)
           filled == [clear_result(cur) EXCEPT
                        !.Ap = arrs.Ap, !.Ai = arrs.Ai, !.Ax = arrs.Ax,
                        !.factorize_done = TRUE, !.copied = M]
       IN  IF symbolic # UMFPACK_OK
           THEN [filled EXCEPT !.exc = "ExcUMFPACKError"]
           ELSE IF numeric # UMFPACK_OK
           THEN [filled EXCEPT !.symbolic_decomposition = 1,
                               !.exc = "ExcUMFPACKError"]
           ELSE [filled EXCEPT !.numeric_decomposition = 1, !.exc = "none"]

\* SparseDirectUMFPACK::factorize (const Matrix &matrix) on the state cur;
\* symbolic and numeric are the statuses umfpack_dl_symbolic and
\* umfpack_dl_numeric return
factorize_result(cur, M, symbolic, numeric) ==
  IF M.m # M.n
  THEN [cur EXCEPT !.exc = "ExcNotQuadratic"]
  ELSE LET arrs == sort_arrays(copy_arrays(M), M)
           filled == [clear_result(cur) EXCEPT
                        !.Ap = arrs.Ap, !.Ai = arrs.Ai, !.Ax = arrs.Ax,
                        !.factorize_done = TRUE, !.copied = M]
       IN  IF symbolic # UMFPACK_OK
           THEN [filled EXCEPT !.exc = "ExcUMFPACKError"]
           ELSE IF numeric # UMFPACK_OK
           THEN [filled EXCEPT !.symbolic_decomposition = 1,
                               !.exc = "ExcUMFPACKError"]
           ELSE [filled EXCEPT !.numeric_decomposition = 1, !.exc = "none"]

\* a plausible slip: the checks that a factorization exists left out
solve_unchecked(cur, rhs_and_solution, status, solution) ==
  IF cur.numeric_decomposition = 0 \/ status # UMFPACK_OK
  THEN [exc |-> "ExcUMFPACKError", reached |-> TRUE,
        rhs_and_solution |-> IF cur.numeric_decomposition = 0
                             THEN rhs_and_solution ELSE solution]
  ELSE [exc |-> "none", reached |-> TRUE, rhs_and_solution |-> solution]

\* SparseDirectUMFPACK::solve (Vector<double> &rhs_and_solution) const on the
\* state cur; status and solution are what umfpack_dl_solve returns and
\* writes.  Without a numeric decomposition UMFPACK rejects the call.
solve_result(cur, rhs_and_solution, status, solution) ==
  IF Len(cur.Ap) = 0 \/ Len(cur.Ai) = 0 \/ Len(cur.Ai) # Len(cur.Ax)
  THEN [exc |-> "ExcNotInitialized", reached |-> FALSE,
        rhs_and_solution |-> rhs_and_solution]
  ELSE IF cur.numeric_decomposition = 0 \/ status # UMFPACK_OK
  THEN [exc |-> "ExcUMFPACKError", reached |-> TRUE,
        rhs_and_solution |-> IF cur.numeric_decomposition = 0
                             THEN rhs_and_solution ELSE solution]
  ELSE [exc |-> "none", reached |-> TRUE, rhs_and_solution |-> solution]

\* the caller's vectors have the size of its system matrix
Vectors == VectorsOf(matrix.n)

\* the matrices a call may be given: the system matrix or a non-square one
InputMatrices == {matrix} \cup NonSquareMatrices(MaxSolverN)

SetUmfState(s) ==
  /\ Ap' = s.Ap
  /\ Ai' = s.Ai
  /\ Ax' = s.Ax
  /\ symbolic_decomposition' = s.symbolic_decomposition
  /\ numeric_decomposition' = s.numeric_decomposition
  /\ factorize_done' = s.factorize_done
  /\ copied' = s.copied

\* SparseDirectUMFPACK::clear ()
clear ==
  /\ SetUmfState(clear_result(UmfState))
  /\ umf_op' = "clear"
  /\ UNCHANGED <<mumpsVars, mapVars>>
  /\ umf_exc' = "none"
  /\ umf_solve_reached' = FALSE
  /\ umf_arg_square' = TRUE
  /\ UNCHANGED <<matrix, dst, src>>

\* SparseDirectUMFPACK::factorize (const Matrix &matrix)
factorize ==
  \E M \in InputMatrices, symbolic \in UmfpackStatus, numeric \in UmfpackStatus :
    \E r \in {factorize_result(UmfState, M, symbolic, numeric)} :
        /\ SetUmfState(r)
        /\ umf_op' = "factorize"
        /\ UNCHANGED <<mumpsVars, mapVars>>
        /\ umf_exc' = r.exc
        /\ umf_solve_reached' = FALSE
        /\ umf_arg_square' = (M.m = M.n)
        /\ UNCHANGED <<matrix, dst, src>>

\* SparseDirectUMFPACK::initialize (const Matrix &M, const AdditionalData)
UMFPACK_initialize ==
  \E M \in InputMatrices, symbolic \in UmfpackStatus, numeric \in UmfpackStatus :
    \E r \in {factorize_result(UmfState, M, symbolic, numeric)} :
        /\ SetUmfState(r)
        /\ umf_op' = "initialize"
        /\ UNCHANGED <<mumpsVars, mapVars>>
        /\ umf_exc' = r.exc
        /\ umf_solve_reached' = FALSE
        /\ umf_arg_square' = (M.m = M.n)
        /\ UNCHANGED <<matrix, dst, src>>

\* SparseDirectUMFPACK::solve (Vector<double> &rhs_and_solution) const,
\* called on the caller's vector dst
solve ==
  \E status \in UmfpackStatus, solution \in Vectors :
    \E r \in {solve_result(UmfState, dst, status, solution)} :
        /\ dst' = r.rhs_and_solution
        /\ umf_op' = "solve"
        /\ UNCHANGED <<mumpsVars, mapVars>>
        /\ umf_exc' = r.exc
        /\ umf_solve_reached' = r.reached
        /\ umf_arg_square' = TRUE
        /\ UNCHANGED <<Ap, Ai, Ax, symbolic_decomposition, numeric_decomposition,
                       factorize_done, copied, matrix, src>>

\* SparseDirectUMFPACK::solve (const Matrix &matrix, Vector<double> &rhs_and_solution)
solve_matrix ==
  \E M \in InputMatrices, symbolic \in UmfpackStatus, numeric \in UmfpackStatus,
     status \in UmfpackStatus, solution \in Vectors :
    \E f \in {factorize_result(UmfState, M, symbolic, numeric)} :
      \E r \in {solve_result(f, dst, status, solution)} :
        /\ SetUmfState(f)
        /\ umf_op' = "solve_matrix"
        /\ UNCHANGED <<mumpsVars, mapVars>>
        /\ umf_arg_square' = (M.m = M.n)
        /\ IF f.exc # "none"
           THEN /\ umf_exc' = f.exc
                /\ umf_solve_reached' = FALSE
                /\ dst' = dst
           ELSE /\ umf_exc' = r.exc
                /\ umf_solve_reached' = r.reached
                /\ dst' = r.rhs_and_solution
        /\ UNCHANGED <<matrix, src>>

\* SparseDirectUMFPACK::vmult (Vector<double> &dst, const Vector<double> &src) const
vmult ==
  \E status \in UmfpackStatus, solution \in Vectors :
    \E r \in {solve_result(UmfState, src, status, solution)} :
        /\ dst' = r.rhs_and_solution
        /\ umf_op' = "vmult"
        /\ UNCHANGED <<mumpsVars, mapVars>>
        /\ umf_exc' = r.exc
        /\ umf_solve_reached' = r.reached
        /\ umf_arg_square' = TRUE
        /\ UNCHANGED <<Ap, Ai, Ax, symbolic_decomposition, numeric_decomposition,
                       factorize_done, copied, matrix, src>>

\* a plausible slip: the transposed and adding products given vmult's body
\* without its solve
not_implemented_copies(op) ==
  /\ dst' = src
  /\ umf_op' = op
  /\ UNCHANGED <<mumpsVars, mapVars>>
  /\ umf_exc' = "none"
  /\ umf_solve_reached' = FALSE
  /\ umf_arg_square' = TRUE
  /\ UNCHANGED <<Ap, Ai, Ax, symbolic_decomposition, numeric_decomposition,
                 factorize_done, copied, matrix, src>>

\* the body shared by Tvmult, vmult_add and Tvmult_add: the call fails at
\* its first statement
not_implemented(op) ==
  /\ umf_op' = op
  /\ UNCHANGED <<mumpsVars, mapVars>>
  /\ umf_exc' = "ExcNotImplemented"
  /\ umf_solve_reached' = FALSE
  /\ umf_arg_square' = TRUE
  /\ UNCHANGED <<Ap, Ai, Ax, symbolic_decomposition, numeric_decomposition,
                 factorize_done, copied, matrix, dst, src>>

\* SparseDirectUMFPACK::Tvmult (Vector<double> &, const Vector<double> &) const
Tvmult == not_implemented("Tvmult")

\* SparseDirectUMFPACK::vmult_add (Vector<double> &, const Vector<double> &) const
vmult_add == not_implemented("vmult_add")

\* SparseDirectUMFPACK::Tvmult_add (Vector<double> &, const Vector<double> &) const
Tvmult_add == not_implemented("Tvmult_add")

\* the caller fills its vectors between two calls
SetVectors ==
  /\ dst' \in Vectors
  /\ src' \in Vectors
  /\ umf_op' = "caller"
  /\ UNCHANGED <<mumpsVars, mapVars>>
  /\ umf_exc' = "none"
  /\ umf_solve_reached' = FALSE
  /\ umf_arg_square' = TRUE
  /\ UNCHANGED <<Ap, Ai, Ax, symbolic_decomposition, numeric_decomposition,
                 factorize_done, copied, matrix>>

(***************************************************************************)
(* SparseDirectMUMPS, on MPI process 0                                     *)
(***************************************************************************)
RECURSIVE triplets(_, _, _, _)
\* the loop over the rows and their entries that fills a, irn and jcn with
\* the entries of nonzero value, 1-based
triplets(M, row, p, arrs) ==
  IF row = M.m THEN arrs
  ELSE IF p > Len(M.rows[row + 1]) THEN triplets(M, row + 1, 1, arrs)
  ELSE LET e == M.rows[row + 1][p]
       IN  IF e.value # 0
           THEN triplets(M, row, p + 1,
                  [a   |-> Append(arrs.a, e.value),
                   irn |-> Append(arrs.irn, row + 1),
                   jcn |-> Append(arrs.jcn, e.column + 1)])
           ELSE triplets(M, row, p + 1, arrs)

\* Matrix::n_actually_nonzero_elements (): the stored entries of nonzero value
n_actually_nonzero_elements(M) ==
  Cardinality({<<r, k>> \in (1..M.m) \X (1..M.n) :
                 k <= Len(M.rows[r]) /\ M.rows[r][k].value # 0})

\* the solver object's own state, as one record
MumpsState ==
  [initialize_called |-> initialize_called, n |-> n, nz |-> nz,
   a |-> a, irn |-> irn, jcn |-> jcn, rhs |-> rhs, id_job |-> id_job,
   mumps_instances |-> mumps_instances,
   mumps_allocations |-> mumps_allocations,
   exc |-> "none", job_ran |-> FALSE]

\* a plausible slip: the check that initialize was not called before left out
initialize_matrix_unchecked(cur, M) ==
  LET t == triplets(M, 0, 1, [a |-> <<>>, irn |-> <<>>, jcn |-> <<>>])
  IN  [cur EXCEPT !.id_job = -1, !.mumps_instances = @ + 1, !.job_ran = TRUE,
                  !.n = M.n, !.nz = n_actually_nonzero_elements(M),
                  !.a = t.a, !.irn = t.irn, !.jcn = t.jcn,
                  !.mumps_allocations = @ + 1,
                  !.initialize_called = TRUE]

\* SparseDirectMUMPS::initialize_matrix (const Matrix &matrix) on the state cur
initialize_matrix(cur, M) ==
  IF cur.initialize_called # FALSE
  THEN [cur EXCEPT !.exc = "ExcInitializeAlreadyCalled"]
  ELSE LET t == triplets(M, 0, 1, [a |-> <<>>, irn |-> <<>>, jcn |-> <<>>])
       IN  [cur EXCEPT !.id_job = -1, !.mumps_instances = @ + 1, !.job_ran = TRUE,
                       !.n = M.n, !.nz = n_actually_nonzero_elements(M),
                       !.a = t.a, !.irn = t.irn, !.jcn = t.jcn,
                       !.mumps_allocations = @ + 1,
                       !.initialize_called = TRUE]

\* a plausible slip: the check for an empty matrix left out
check_initialized_only(cur) ==
  IF cur.initialize_called # TRUE THEN "ExcNotInitialized" ELSE "none"

\* the two checks at the head of solve and of vmult: the name of the
\* exception raised, or "none"
check_initialized(cur) ==
  IF cur.initialize_called # TRUE THEN "ExcNotInitialized"
  ELSE IF cur.nz = 0 THEN "ExcNotInitialized"
  ELSE "none"

SetMumpsState(s) ==
  /\ initialize_called' = s.initialize_called
  /\ n' = s.n
  /\ nz' = s.nz
  /\ a' = s.a
  /\ irn' = s.irn
  /\ jcn' = s.jcn
  /\ rhs' = s.rhs
  /\ id_job' = s.id_job
  /\ mumps_instances' = s.mumps_instances
  /\ mumps_allocations' = s.mumps_allocations
  /\ mumps_exc' = s.exc
  /\ mumps_job_ran' = s.job_ran

\* a read or write through the unset or deleted rhs pointer may have ended
\* the process
Running == mumps_exc # "crash"

\* SparseDirectMUMPS::initialize (const Matrix &matrix, const Vector<double> &vector),
\* called with the caller's matrix and its vector src
MUMPS_initialize_rhs ==
  /\ Running
  /\ \E r \in {initialize_matrix(MumpsState, matrix)} :
       IF r.exc # "none"
       THEN SetMumpsState(r)
       ELSE SetMumpsState([r EXCEPT !.rhs = [state |-> "allocated",
                                             data |-> [i \in 1..r.n |-> src[i]]]])
  /\ mumps_op' = "initialize_rhs"
  /\ UNCHANGED <<callerVars, umfVars, mapVars>>

\* SparseDirectMUMPS::initialize (const Matrix &matrix)
MUMPS_initialize ==
  /\ Running
  /\ \E r \in {initialize_matrix(MumpsState, matrix)} :
       IF r.exc # "none"
       THEN SetMumpsState(r)
       ELSE SetMumpsState([r EXCEPT !.id_job = 4])
  /\ mumps_op' = "initialize"
  /\ UNCHANGED <<callerVars, umfVars, mapVars>>

\* dmumps_c with a solve phase, then copy_solution (vector): MUMPS leaves
\* the solution in id.rhs, copy_solution copies it to the vector and deletes
\* rhs.  Through an unset or deleted rhs both are undefined: the process
\* ends, or goes on with arbitrary values.
run_and_copy(cur, job, solution, survives) ==
  IF cur.rhs.state = "allocated"
  THEN [state |-> [cur EXCEPT !.id_job = job, !.job_ran = TRUE,
                              !.rhs = [state |-> "deleted", data |-> <<>>]],
        vector |-> solution]
  ELSE IF survives
  THEN [state |-> [cur EXCEPT !.id_job = job, !.job_ran = TRUE,
                              !.rhs = [state |-> "deleted", data |-> <<>>]],
        vector |-> solution]
  ELSE [state |-> [cur EXCEPT !.id_job = job, !.job_ran = TRUE, !.exc = "crash"],
        vector |-> dst]

\* SparseDirectMUMPS::solve (Vector<double> &vector), called on dst
MUMPS_solve ==
  /\ Running
  /\ mumps_op' = "solve"
  /\ \E solution \in Vectors, survives \in BOOLEAN :
       \E e \in {check_initialized(MumpsState)} :
         IF e # "none"
         THEN /\ SetMumpsState([MumpsState EXCEPT !.exc = e])
              /\ dst' = dst
         ELSE \E r \in {run_and_copy(MumpsState, 6, solution, survives)} :
                /\ SetMumpsState(r.state)
                /\ dst' = r.vector
  /\ UNCHANGED <<matrix, src, umfVars, mapVars>>

\* SparseDirectMUMPS::vmult (Vector<double> &dst, const Vector<double> &src)
MUMPS_vmult ==
  /\ Running
  /\ mumps_op' = "vmult"
  /\ \E solution \in Vectors :
       \E e \in {check_initialized(MumpsState)} :
         IF e # "none"
         THEN /\ SetMumpsState([MumpsState EXCEPT !.exc = e])
              /\ dst' = dst
         ELSE \E r \in {run_and_copy(
                          [MumpsState EXCEPT
                             !.rhs = [state |-> "allocated",
                                      data |-> [i \in 1..n |-> src[i]]]],
                          3, solution, TRUE)} :
                /\ SetMumpsState(r.state)
                /\ dst' = r.vector
  /\ UNCHANGED <<matrix, src, umfVars, mapVars>>

\* the caller fills its vectors between two calls
MUMPS_SetVectors ==
  /\ Running
  /\ dst' \in Vectors
  /\ src' \in Vectors
  /\ mumps_op' = "caller"
  /\ mumps_exc' = "none"
  /\ mumps_job_ran' = FALSE
  /\ UNCHANGED <<matrix, umfVars, mapVars, initialize_called, n, nz, a, irn, jcn, rhs,
                 id_job, mumps_instances, mumps_allocations>>

(***************************************************************************)
(* MappingQGeneric<dim,spacedim> with dim == spacedim == 2                 *)
(***************************************************************************)
dim == 2

\* the UpdateFlags bits that requires_update_flags, initialize and the
\* transform functions test
AllFlags ==
  {"update_JxW_values", "update_normal_vectors", "update_boundary_forms",
   "update_covariant_transformation", "update_contravariant_transformation",
   "update_jacobians", "update_jacobian_grads", "update_inverse_jacobians",
   "update_jacobian_pushed_forward_grads",
   "update_jacobian_pushed_forward_2nd_derivatives",
   "update_jacobian_pushed_forward_3rd_derivatives",
   "update_volume_elements"}

\* out & (flags): some flag of the mask is set
Flagged(out, mask) == out \cap mask # {}

\* one pass of the loop body of requires_update_flags: its five if-clauses,
\* in order
flags_pass(out0) ==
  LET out1 == IF Flagged(out0, {"update_JxW_values", "update_normal_vectors"})
              THEN out0 \cup {"update_boundary_forms"} ELSE out0
      out2 == IF Flagged(out1, {"update_covariant_transformation", "update_JxW_values",
                            "update_jacobians", "update_jacobian_grads",
                            "update_boundary_forms", "update_normal_vectors"})
              THEN out1 \cup {"update_contravariant_transformation"} ELSE out1
      out3 == IF Flagged(out2, {"update_inverse_jacobians",
                            "update_jacobian_pushed_forward_grads",
                            "update_jacobian_pushed_forward_2nd_derivatives",
                            "update_jacobian_pushed_forward_3rd_derivatives"})
              THEN out2 \cup {"update_covariant_transformation"} ELSE out2
      out4 == IF Flagged(out3, {"update_contravariant_transformation"})
              THEN out3 \cup {"update_JxW_values"} ELSE out3
      out5 == IF Flagged(out4, {"update_normal_vectors"})
              THEN out4 \cup {"update_JxW_values"} ELSE out4
  IN  out5

RECURSIVE flags_loop(_, _, _)
\* for (unsigned int i=0; i<passes; ++i) { the five if-clauses }
flags_loop(out, i, passes) ==
  IF i < passes THEN flags_loop(flags_pass(out), i + 1, passes) ELSE out

\* a plausible slip: the if-clauses run once, without the loop
requires_update_flags_once(in) == flags_loop(in, 0, 1)

\* MappingQGeneric::requires_update_flags (const UpdateFlags in)
requires_update_flags(in) == flags_loop(in, 0, 5)

\* a 2 x 2 tensor as a sequence of rows; the default-constructed one is zero
ZeroTensor == <<<<0, 0>>, <<0, 0>>>>

\* the inverse transpose of a tensor, kept as the transposed cofactors over
\* the determinant; the default-constructed one is zero
ZeroForm == [cofactors |-> ZeroTensor, det |-> 1]

\* InternalData::n_shape_functions for polynomial_degree 1 and dim 2
n_shape_functions == 4

\* the unit points of the quadrature formula: the first MaxQ vertices of the
\* unit square
unit_points == SubSeq(<<<<0, 0>>, <<1, 0>>, <<0, 1>>, <<1, 1>>>>, 1, MaxQ)

\* compute_shape_function_values<2>: data.derivative(k, 0..3) at each unit
\* point (x, y), each a Tensor<1,2>
compute_shape_function_values(points) ==
  [k \in 1..Len(points) |->
     LET x == points[k][1]
         y == points[k][2]
     IN  << <<y - 1, x - 1>>, <<1 - y, -x>>, <<-y, 1 - x>>, <<y, x>> >>]

\* std::vector::resize (n) of a vector of default-constructed entries
resized(count, entry) == [k \in 1..count |-> entry]

\* MappingQGeneric::InternalData::initialize (update_flags, q,
\* n_original_q_points): the flags stored and the arrays they ask for resized
initialize(update_flags, n_original_q_points) ==
  [update_each |-> update_flags,
   covariant |->
     IF Flagged(update_flags, {"update_covariant_transformation"})
     THEN resized(n_original_q_points, ZeroForm) ELSE <<>>,
   contravariant |->
     IF Flagged(update_flags, {"update_contravariant_transformation"})
     THEN resized(n_original_q_points, ZeroTensor) ELSE <<>>,
   volume_elements |->
     IF Flagged(update_flags, {"update_volume_elements"})
     THEN resized(n_original_q_points, 0) ELSE <<>>,
   shape_derivatives |->
     IF Flagged(update_flags,
                {"update_covariant_transformation", "update_contravariant_transformation",
                 "update_JxW_values", "update_boundary_forms", "update_normal_vectors",
                 "update_jacobians", "update_jacobian_grads", "update_inverse_jacobians",
                 "update_jacobian_pushed_forward_grads",
                 "update_jacobian_pushed_forward_2nd_derivatives",
                 "update_jacobian_pushed_forward_3rd_derivatives"})
     THEN compute_shape_function_values(unit_points) ELSE <<>>]

\* the InternalData object as one record
Data ==
  [update_each |-> update_each, covariant |-> covariant,
   contravariant |-> contravariant, volume_elements |-> volume_elements]

\* MappingQGeneric::get_data (const UpdateFlags update_flags, const Quadrature<dim> &q),
\* with a quadrature of MaxQ points
get_data ==
  /\ ~data_made
  /\ \E d \in {initialize(requires_update_flags(in_flags), MaxQ)} :
       /\ update_each' = d.update_each
       /\ covariant' = d.covariant
       /\ contravariant' = d.contravariant
       /\ volume_elements' = d.volume_elements
       /\ shape_derivatives' = d.shape_derivatives
  /\ data_made' = TRUE
  /\ UNCHANGED <<in_flags, mapping_support_points, cell_of_current_support_points,
                 transformVars, fillVars, tableVars, callerVars, umfVars, mumpsVars>>

\* the enumerators of MappingType (mapping_nedelec, mapping_raviart_thomas
\* and mapping_bdm are other names of mapping_covariant and mapping_piola)
MappingTypes ==
  {"mapping_none", "mapping_covariant", "mapping_contravariant",
   "mapping_covariant_gradient", "mapping_contravariant_gradient",
   "mapping_piola", "mapping_piola_gradient", "mapping_covariant_hessian",
   "mapping_contravariant_hessian", "mapping_piola_hessian"}

\* a failed check on data.update_each, naming a field
AccessToUninitializedField(field) ==
  [exc |-> "ExcAccessToUninitializedField", field |-> field, reads |-> {},
   written |-> FALSE]

\* the default branch of a switch over mapping_type
NotImplemented ==
  [exc |-> "ExcNotImplemented", field |-> "", reads |-> {}, written |-> FALSE]

\* a failed check with a message
Message(text) == [exc |-> "ExcMessage", field |-> text, reads |-> {}, written |-> FALSE]

\* the loop  for (i<output.size()) output[i] = ... data.<array>[i] ...  over
\* MaxQ points: it reads the named arrays and writes output.  An array that
\* was never resized is read outside its bounds.
transform_loop(data, arrays) ==
  [exc |-> IF \E x \in arrays : Len(data[x]) < MaxQ THEN "out_of_bounds" ELSE "none",
   field |-> "", reads |-> arrays, written |-> TRUE]

\* transform_fields<dim,spacedim,rank>
transform_fields(rank, mapping_type, data) ==
  CASE mapping_type = "mapping_contravariant" ->
         IF ~Flagged(data.update_each, {"update_contravariant_transformation"})
         THEN AccessToUninitializedField("update_contravariant_transformation")
         ELSE transform_loop(data, {"contravariant"})
    [] mapping_type = "mapping_piola" ->
         IF ~Flagged(data.update_each, {"update_contravariant_transformation"})
         THEN AccessToUninitializedField("update_contravariant_transformation")
         ELSE IF ~Flagged(data.update_each, {"update_volume_elements"})
         THEN AccessToUninitializedField("update_volume_elements")
         ELSE IF rank # 1
         THEN Message("Only for rank 1")
         ELSE transform_loop(data, {"contravariant", "volume_elements"})
    [] mapping_type = "mapping_covariant" ->
         IF ~Flagged(data.update_each, {"update_contravariant_transformation"})
         THEN AccessToUninitializedField("update_covariant_transformation")
         ELSE transform_loop(data, {"covariant"})
    [] OTHER -> NotImplemented

\* transform_gradients<dim,spacedim,rank>
transform_gradients(rank, mapping_type, data) ==
  CASE mapping_type = "mapping_contravariant_gradient" ->
         IF ~Flagged(data.update_each, {"update_covariant_transformation"})
         THEN AccessToUninitializedField("update_covariant_transformation")
         ELSE IF ~Flagged(data.update_each, {"update_contravariant_transformation"})
         THEN AccessToUninitializedField("update_contravariant_transformation")
         ELSE IF rank # 2
         THEN Message("Only for rank 2")
         ELSE transform_loop(data, {"contravariant", "covariant"})
    [] mapping_type = "mapping_covariant_gradient" ->
         IF ~Flagged(data.update_each, {"update_covariant_transformation"})
         THEN AccessToUninitializedField("update_covariant_transformation")
         ELSE IF rank # 2
         THEN Message("Only for rank 2")
         ELSE transform_loop(data, {"covariant"})
    [] mapping_type = "mapping_piola_gradient" ->
         IF ~Flagged(data.update_each, {"update_covariant_transformation"})
         THEN AccessToUninitializedField("update_covariant_transformation")
         ELSE IF ~Flagged(data.update_each, {"update_contravariant_transformation"})
         THEN AccessToUninitializedField("update_contravariant_transformation")
         ELSE IF ~Flagged(data.update_each, {"update_volume_elements"})
         THEN AccessToUninitializedField("update_volume_elements")
         ELSE IF rank # 2
         THEN Message("Only for rank 2")
         ELSE transform_loop(data, {"covariant", "contravariant", "volume_elements"})
    [] OTHER -> NotImplemented

\* transform_hessians<dim,spacedim>
transform_hessians(mapping_type, data) ==
  CASE mapping_type = "mapping_contravariant_hessian" ->
         IF ~Flagged(data.update_each, {"update_covariant_transformation"})
         THEN AccessToUninitializedField("update_covariant_transformation")
         ELSE IF ~Flagged(data.update_each, {"update_contravariant_transformation"})
         THEN AccessToUninitializedField("update_contravariant_transformation")
         ELSE transform_loop(data, {"contravariant", "covariant"})
    [] mapping_type = "mapping_covariant_hessian" ->
         IF ~Flagged(data.update_each, {"update_covariant_transformation"})
         THEN AccessToUninitializedField("update_covariant_transformation")
         ELSE transform_loop(data, {"covariant"})
    [] mapping_type = "mapping_piola_hessian" ->
         IF ~Flagged(data.update_each, {"update_covariant_transformation"})
         THEN AccessToUninitializedField("update_covariant_transformation")
         ELSE IF ~Flagged(data.update_each, {"update_contravariant_transformation"})
         THEN AccessToUninitializedField("update_contravariant_transformation")
         ELSE IF ~Flagged(data.update_each, {"update_volume_elements"})
         THEN AccessToUninitializedField("update_volume_elements")
         ELSE transform_loop(data, {"contravariant", "volume_elements", "covariant"})
    [] OTHER -> NotImplemented

\* transform_differential_forms<dim,spacedim,rank>
transform_differential_forms(rank, mapping_type, data) ==
  CASE mapping_type = "mapping_covariant" ->
         IF ~Flagged(data.update_each, {"update_contravariant_transformation"})
         THEN AccessToUninitializedField("update_covariant_transformation")
         ELSE transform_loop(data, {"covariant"})
    [] OTHER -> NotImplemented

\* MappingQGeneric::transform, input Tensor<1,dim>
transform_Tensor1(mapping_type, data) == transform_fields(1, mapping_type, data)

\* MappingQGeneric::transform, input DerivativeForm<1,dim,spacedim>
transform_DerivativeForm1(mapping_type, data) ==
  transform_differential_forms(1, mapping_type, data)

\* a plausible slip: the switch of the Tensor<2> overload left out, every
\* mapping type handed to transform_fields or transform_gradients
transform_Tensor2_unguarded(mapping_type, data) ==
  IF mapping_type \in {"mapping_piola_gradient", "mapping_contravariant_gradient",
                       "mapping_covariant_gradient"}
  THEN transform_gradients(2, mapping_type, data)
  ELSE transform_fields(2, mapping_type, data)

\* MappingQGeneric::transform, input Tensor<2,dim>
transform_Tensor2(mapping_type, data) ==
  CASE mapping_type = "mapping_contravariant" ->
         transform_fields(2, mapping_type, data)
    [] mapping_type \in {"mapping_piola_gradient", "mapping_contravariant_gradient",
                         "mapping_covariant_gradient"} ->
         transform_gradients(2, mapping_type, data)
    [] OTHER -> NotImplemented

\* MappingQGeneric::transform, input DerivativeForm<2,dim,spacedim>
transform_DerivativeForm2(mapping_type, data) ==
  CASE mapping_type = "mapping_covariant_gradient" ->
         IF ~Flagged(data.update_each, {"update_contravariant_transformation"})
         THEN AccessToUninitializedField("update_covariant_transformation")
         ELSE transform_loop(data, {"covariant"})
    [] OTHER -> NotImplemented

\* MappingQGeneric::transform, input Tensor<3,dim>
transform_Tensor3(mapping_type, data) ==
  CASE mapping_type \in {"mapping_piola_hessian", "mapping_contravariant_hessian",
                         "mapping_covariant_hessian"} ->
         transform_hessians(mapping_type, data)
    [] OTHER -> NotImplemented

\* a transform call has run with result r.  A read outside an array's bounds
\* is undefined: the call ends the process or goes on with what it read.
SetTransform(overload, mapping_type, r) ==
  /\ data_made
  /\ tr_exc # "crash"
  /\ tr_overload' = overload
  /\ tr_mapping_type' = mapping_type
  /\ tr_exc' \in (IF r.exc = "out_of_bounds" THEN {"crash", "none"} ELSE {r.exc})
  /\ tr_field' = r.field
  /\ tr_reads' = r.reads
  /\ tr_written' = (r.written /\ tr_exc' = "none")
  /\ UNCHANGED <<dataVars, fillVars, tableVars, callerVars, umfVars, mumpsVars>>

transform_1 ==
  \E mapping_type \in MappingTypes :
    SetTransform("Tensor<1>", mapping_type, transform_Tensor1(mapping_type, Data))

transform_2 ==
  \E mapping_type \in MappingTypes :
    SetTransform("DerivativeForm<1>", mapping_type,
                 transform_DerivativeForm1(mapping_type, Data))

transform_3 ==
  \E mapping_type \in MappingTypes :
    SetTransform("Tensor<2>", mapping_type, transform_Tensor2(mapping_type, Data))

transform_4 ==
  \E mapping_type \in MappingTypes :
    SetTransform("DerivativeForm<2>", mapping_type,
                 transform_DerivativeForm2(mapping_type, Data))

transform_5 ==
  \E mapping_type \in MappingTypes :
    SetTransform("Tensor<3>", mapping_type, transform_Tensor3(mapping_type, Data))

\* a cell of the triangulation by its four vertices, in deal.II's order:
\* lower left, lower right, upper left, upper right.  The x-coordinates are
\* multiples of 1 and the y-coordinates multiples of 2.5e-13, so that a
\* determinant is a multiple of 2.5e-13 as well.
Cell(x0, h2, h3) ==
  [vertices |-> << <<x0, 0>>, <<x0 + 1, 0>>, <<x0, h2>>, <<x0 + 1, h3>> >>]

Cells == {Cell(x0, h2, h3) : x0 \in 0..1, h2 \in -1..MaxH, h3 \in -1..MaxH}

\* no cell yet
NoCell == [vertices |-> <<>>]

\* the weights of the quadrature formula, a different one at each point
quadrature_weights == [point \in 1..MaxQ |-> point + 1]

\* CellSimilarity::translation is passed only for a cell that is a shifted
\* copy of the cell of the previous call
is_translation(c, previous) ==
  /\ previous # NoCell
  /\ \A k \in 1..4 : \A i \in 1..dim :
       c.vertices[k][i] - c.vertices[1][i]
         = previous.vertices[k][i] - previous.vertices[1][i]

\* compute_mapping_support_points (cell, a): the cell's vertices
compute_mapping_support_points(c) == c.vertices

RECURSIVE sum_over_shape_functions(_, _, _, _, _)
\* result[i][j], summed over the shape functions k..n_shape_functions
sum_over_shape_functions(data_derv, supp_pts, i, j, k) ==
  IF k > n_shape_functions THEN 0
  ELSE data_derv[k][j] * supp_pts[k][i]
         + sum_over_shape_functions(data_derv, supp_pts, i, j, k + 1)

\* DerivativeForm<1,2,2>::determinant
determinant(t) == t[1][1] * t[2][2] - t[1][2] * t[2][1]

\* DerivativeForm<1,2,2>::covariant_form: the transpose of the inverse
covariant_form(t) ==
  [cofactors |-> << <<t[2][2], -t[2][1]>>, <<-t[1][2], t[1][1]>> >>,
   det |-> determinant(t)]

\* internal::maybe_update_Jacobians (cell_similarity, data_set, data)
maybe_update_Jacobians(cell_similarity, data) ==
  LET new_contravariant ==
        IF Flagged(data.update_each, {"update_contravariant_transformation"})
           /\ cell_similarity # "translation"
        THEN [point \in 1..Len(data.contravariant) |->
                [i \in 1..dim |->
                   [j \in 1..dim |->
                      sum_over_shape_functions(data.shape_derivatives[point],
                                               data.mapping_support_points, i, j, 1)]]]
        ELSE data.contravariant
  IN  [data EXCEPT
         !.contravariant = new_contravariant,
         !.covariant =
           IF Flagged(data.update_each, {"update_covariant_transformation"})
              /\ cell_similarity # "translation"
           THEN [point \in 1..Len(new_contravariant) |->
                   covariant_form(new_contravariant[point])]
           ELSE @,
         !.volume_elements =
           IF Flagged(data.update_each, {"update_volume_elements"})
              /\ cell_similarity # "translation"
           THEN [point \in 1..Len(new_contravariant) |->
                   determinant(new_contravariant[point])]
           ELSE @]

\* 1e-12 in the unit of the determinant, 2.5e-13
Tolerance == 4

\* the square of cell->diameter(), the longer diagonal of the cell.  The
\* y-extent of a diagonal adds less than 1e-20 to it, which changes no
\* comparison with a determinant.
diameter_squared(c) ==
  LET d1 == c.vertices[4][1] - c.vertices[1][1]
      d2 == c.vertices[3][1] - c.vertices[2][1]
  IN  IF d1 * d1 > d2 * d2 THEN d1 * d1 ELSE d2 * d2

\* 1e-12*Utilities::fixed_power<dim>(cell->diameter()/std::sqrt(double(dim)))
distortion_bound(c) == (Tolerance * diameter_squared(c)) \div dim

\* a plausible slip: the determinant only has to be positive
det_positive(det, c) == det > 0

\* the condition of the check for distorted cells
det_acceptable(det, c) == det > distortion_bound(c)

RECURSIVE compute_JxW(_, _, _, _, _)
\* the loop over the quadrature points from point on: it stops at the first
\* point whose determinant fails the check
compute_JxW(JxW, data, w, c, point) ==
  IF point > Len(w) THEN [JxW_values |-> JxW, exc |-> "none"]
  ELSE LET det == determinant(data.contravariant[point])
       IN  IF ~det_acceptable(det, c)
           THEN [JxW_values |-> JxW, exc |-> "ExcDistortedMappedCell"]
           ELSE compute_JxW([JxW EXCEPT ![point] = w[point] * det], data, w, c,
                            point + 1)

\* the InternalData object as one record, for fill_fe_values
FillData ==
  [update_each |-> update_each, covariant |-> covariant,
   contravariant |-> contravariant, volume_elements |-> volume_elements,
   shape_derivatives |-> shape_derivatives,
   mapping_support_points |-> mapping_support_points]

\* MappingQGeneric::fill_fe_values (cell, cell_similarity, quadrature,
\* internal_data, output_data), for the data object of get_data and its
\* quadrature formula.  The parts of the function that follow the JxW values
\* run under flags outside FillFlags and write other fields of output_data.
fill_fe_values ==
  /\ data_made
  /\ \E c \in Cells, cell_similarity \in {"none", "translation"} :
       /\ cell_similarity = "translation" => is_translation(c, cell)
       /\ \E d \in {maybe_update_Jacobians(
                      cell_similarity,
                      [FillData EXCEPT !.mapping_support_points =
                         IF Len(mapping_support_points) = 0
                            \/ c # cell_of_current_support_points
                         THEN compute_mapping_support_points(c) ELSE @])} :
            /\ mapping_support_points' = d.mapping_support_points
            /\ cell_of_current_support_points' = c
            /\ contravariant' = d.contravariant
            /\ covariant' = d.covariant
            /\ volume_elements' = d.volume_elements
            /\ \E r \in {IF Flagged(update_each, {"update_normal_vectors", "update_JxW_values"})
                            /\ cell_similarity # "translation"
                         THEN compute_JxW(JxW_values, d, weights, c, 1)
                         ELSE [JxW_values |-> JxW_values, exc |-> "none"]} :
                 /\ JxW_values' = r.JxW_values
                 /\ fill_exc' = r.exc
       /\ cell' = c
       /\ fill_similarity' = cell_similarity
  /\ UNCHANGED <<in_flags, data_made, update_each, shape_derivatives, weights,
                 transformVars, tableVars, callerVars, umfVars, mumpsVars>>

(***************************************************************************)
(* The hard-coded shape function tables of polynomial degree 1, for        *)
(* dim == spacedim in 1..3.  A unit point is the sequence of its           *)
(* coordinates; a table entry of shape function k is a value, or a tensor  *)
(* as nested sequences indexed from 1.                                     *)
(***************************************************************************)
RECURSIVE zero(_, _)
\* Tensor<rank,d> zero: the default-constructed tensor
zero(rank, d) == IF rank = 0 THEN 0 ELSE [i \in 1..d |-> zero(rank - 1, d)]

\* compute_shape_function_values<1>: data.shape(k, 0..1)
shape_1(pt) ==
  LET x == pt[1]
  IN  <<1 - x, x>>

\* compute_shape_function_values<1>: data.derivative(k, 0..1)
derivative_1(pt) == << <<-1>>, <<1>> >>

\* compute_shape_function_values<1>: data.second_derivative(k, 0..1)
second_derivative_1(pt) == << <<<<0>>>>, <<<<0>>>> >>

\* compute_shape_function_values<1>: data.third_derivative(k, 0..1)
third_derivative_1(pt) == <<zero(3, 1), zero(3, 1)>>

\* compute_shape_function_values<1>: data.fourth_derivative(k, 0..1)
fourth_derivative_1(pt) == <<zero(4, 1), zero(4, 1)>>

\* compute_shape_function_values<2>: data.shape(k, 0..3)
shape_2(pt) ==
  LET x == pt[1]
      y == pt[2]
  IN  <<(1 - x) * (1 - y), x * (1 - y), (1 - x) * y, x * y>>

\* compute_shape_function_values<2>: data.derivative(k, 0..3)
derivative_2(pt) ==
  LET x == pt[1]
      y == pt[2]
  IN  << <<y - 1, x - 1>>, <<1 - y, -x>>, <<-y, 1 - x>>, <<y, x>> >>

\* compute_shape_function_values<2>: data.second_derivative(k, 0..3)
second_derivative_2(pt) ==
  << << <<0, 1>>, <<1, 0>> >>,
     << <<0, -1>>, <<-1, 0>> >>,
     << <<0, -1>>, <<-1, 0>> >>,
     << <<0, 1>>, <<1, 0>> >> >>

\* compute_shape_function_values<2>: data.third_derivative(k, 0..3)
third_derivative_2(pt) == [k \in 1..4 |-> zero(3, 2)]

\* compute_shape_function_values<2>: data.fourth_derivative(k, 0..3)
fourth_derivative_2(pt) == [k \in 1..4 |-> zero(4, 2)]

\* compute_shape_function_values<3>: data.shape(k, 0..7)
shape_3(pt) ==
  LET x == pt[1]
      y == pt[2]
      z == pt[3]
  IN  <<(1 - x) * (1 - y) * (1 - z), x * (1 - y) * (1 - z),
        (1 - x) * y * (1 - z), x * y * (1 - z),
        (1 - x) * (1 - y) * z, x * (1 - y) * z,
        (1 - x) * y * z, x * y * z>>

\* compute_shape_function_values<3>: data.derivative(k, 0..7)
derivative_3(pt) ==
  LET x == pt[1]
      y == pt[2]
      z == pt[3]
  IN  << <<(y - 1) * (1 - z), (x - 1) * (1 - z), (x - 1) * (1 - y)>>,
         <<(1 - y) * (1 - z), (-x) * (1 - z), x * (y - 1)>>,
         <<(-y) * (1 - z), (1 - x) * (1 - z), (x - 1) * y>>,
         <<y * (1 - z), x * (1 - z), (-x) * y>>,
         <<(y - 1) * z, (x - 1) * z, (1 - x) * (1 - y)>>,
         <<(1 - y) * z, (-x) * z, x * (1 - y)>>,
         <<(-y) * z, (1 - x) * z, (1 - x) * y>>,
         <<y * z, x * z, x * y>> >>

\* one Tensor<2,3> of the second derivative table from its entries
\* [0][0], [1][1], [2][2], then [0][1] and [1][0], [0][2] and [2][0],
\* [1][2] and [2][1], each entry assigned on its own
second_tensor(e00, e11, e22, e01, e10, e02, e20, e12, e21) ==
  << <<e00, e01, e02>>, <<e10, e11, e12>>, <<e20, e21, e22>> >>

\* a plausible slip in the table: the [2][1] entries copied from [0][1]
second_derivative_3_slip(pt) ==
  LET x == pt[1]
      y == pt[2]
      z == pt[3]
  IN  <<second_tensor(0, 0, 0, 1 - z, 1 - z, 1 - y, 1 - y, 1 - x, 1 - z),
        second_tensor(0, 0, 0, -(1 - z), -(1 - z), -(1 - y), -(1 - y), x, -(1 - z)),
        second_tensor(0, 0, 0, -(1 - z), -(1 - z), y, y, -(1 - x), -(1 - z)),
        second_tensor(0, 0, 0, 1 - z, 1 - z, -y, -y, -x, 1 - z),
        second_tensor(0, 0, 0, z, z, -(1 - y), -(1 - y), -(1 - x), z),
        second_tensor(0, 0, 0, -z, -z, 1 - y, 1 - y, -x, -z),
        second_tensor(0, 0, 0, -z, -z, -y, -y, 1 - x, -z),
        second_tensor(0, 0, 0, z, z, y, y, x, z)>>

\* compute_shape_function_values<3>: data.second_derivative(k, 0..7)
second_derivative_3(pt) ==
  LET x == pt[1]
      y == pt[2]
      z == pt[3]
  IN  <<second_tensor(0, 0, 0, 1 - z, 1 - z, 1 - y, 1 - y, 1 - x, 1 - x),
        second_tensor(0, 0, 0, -(1 - z), -(1 - z), -(1 - y), -(1 - y), x, x),
        second_tensor(0, 0, 0, -(1 - z), -(1 - z), y, y, -(1 - x), -(1 - x)),
        second_tensor(0, 0, 0, 1 - z, 1 - z, -y, -y, -x, -x),
        second_tensor(0, 0, 0, z, z, -(1 - y), -(1 - y), -(1 - x), -(1 - x)),
        second_tensor(0, 0, 0, -z, -z, 1 - y, 1 - y, -x, -x),
        second_tensor(0, 0, 0, -z, -z, -y, -y, 1 - x, 1 - x),
        second_tensor(0, 0, 0, z, z, y, y, x, x)>>

\* compute_shape_function_values<3>: data.third_derivative(k, 0..7), the
\* loop over i, j, l
third_derivative_3(pt) ==
  LET mixed == <<-1, 1, 1, -1, 1, -1, -1, 1>>
  IN  [m \in 1..8 |->
         [i \in 1..3 |-> [j \in 1..3 |-> [l \in 1..3 |->
            IF i = j \/ j = l \/ l = i THEN 0 ELSE mixed[m]]]]]

\* compute_shape_function_values<3>: data.fourth_derivative(k, 0..7)
fourth_derivative_3(pt) == [i \in 1..8 |-> zero(4, 3)]

\* the names of the five tables
Tables ==
  {"shape_values", "shape_derivatives", "shape_second_derivatives",
   "shape_third_derivatives", "shape_fourth_derivatives"}

\* the entries of one table at one unit point, by the overload for d
table_at(d, name, pt) ==
  CASE name = "shape_values" ->
         (CASE d = 1 -> shape_1(pt) [] d = 2 -> shape_2(pt) [] OTHER -> shape_3(pt))
    [] name = "shape_derivatives" ->
         (CASE d = 1 -> derivative_1(pt) [] d = 2 -> derivative_2(pt)
            [] OTHER -> derivative_3(pt))
    [] name = "shape_second_derivatives" ->
         (CASE d = 1 -> second_derivative_1(pt) [] d = 2 -> second_derivative_2(pt)
            [] OTHER -> second_derivative_3(pt))
    [] name = "shape_third_derivatives" ->
         (CASE d = 1 -> third_derivative_1(pt) [] d = 2 -> third_derivative_2(pt)
            [] OTHER -> third_derivative_3(pt))
    [] OTHER ->
         (CASE d = 1 -> fourth_derivative_1(pt) [] d = 2 -> fourth_derivative_2(pt)
            [] OTHER -> fourth_derivative_3(pt))

\* the loop over the unit points for one table: a table of size 0 is skipped
filled_table(d, name, points, sized) ==
  IF name \in sized
  THEN [k \in 1..Len(points) |-> table_at(d, name, points[k])]
  ELSE <<>>

\* the coordinates of the unit points the tables are evaluated at
Coordinates == 0..1

\* the unit point sequences of 1..MaxPoints points in dimension d
PointSequences(d) ==
  UNION {[1..len -> [1..d -> Coordinates]] : len \in 1..MaxPoints}

\* InternalData::compute_shape_function_values (unit_points) for degree 1 and
\* dim == spacedim: every table of nonzero size is filled at every unit point
compute_tables ==
  /\ ~tables_filled
  /\ table_dim \in 1..3
  /\ tables_filled' = TRUE
  /\ shape_values' = filled_table(table_dim, "shape_values", table_points, table_sized)
  /\ shape_derivatives' =
       filled_table(table_dim, "shape_derivatives", table_points, table_sized)
  /\ shape_second_derivatives' =
       filled_table(table_dim, "shape_second_derivatives", table_points, table_sized)
  /\ shape_third_derivatives' =
       filled_table(table_dim, "shape_third_derivatives", table_points, table_sized)
  /\ shape_fourth_derivatives' =
       filled_table(table_dim, "shape_fourth_derivatives", table_points, table_sized)
  /\ UNCHANGED <<table_dim, table_points, table_sized, in_flags, data_made,
                 update_each, covariant, contravariant, volume_elements,
                 mapping_support_points, cell_of_current_support_points,
                 transformVars, fillVars, callerVars, umfVars, mumpsVars>>

\* the tables before compute_shape_function_values: all empty, for an object
\* of dimension d, unit points and resized tables out of the given inputs
TablesInit(dims) ==
  /\ table_dim \in dims
  /\ table_points \in (IF table_dim = 0 THEN {<<>>} ELSE PointSequences(table_dim))
  /\ table_sized \in (IF table_dim = 0 THEN {{}} ELSE SUBSET Tables)
  /\ tables_filled = FALSE
  /\ shape_values = <<>>
  /\ shape_second_derivatives = <<>>
  /\ shape_third_derivatives = <<>>
  /\ shape_fourth_derivatives = <<>>

\* before get_data: no InternalData object, no transform or fill_fe_values call yet
MapInit(flag_sets) ==
  /\ in_flags \in flag_sets
  /\ weights = quadrature_weights
  /\ shape_derivatives = <<>>
  /\ mapping_support_points = <<>>
  /\ cell_of_current_support_points = NoCell
  /\ cell = NoCell
  /\ JxW_values = resized(MaxQ, 0)
  /\ fill_similarity = "not_called"
  /\ fill_exc = "none"
  /\ data_made = FALSE
  /\ update_each = {}
  /\ covariant = <<>>
  /\ contravariant = <<>>
  /\ volume_elements = <<>>
  /\ tr_overload = "none"
  /\ tr_mapping_type = "mapping_none"
  /\ tr_exc = "none"
  /\ tr_field = ""
  /\ tr_reads = {}
  /\ tr_written = FALSE

\* SparseDirectMUMPS::SparseDirectMUMPS (): only initialize_called is set
MumpsInit ==
  /\ initialize_called = FALSE
  /\ n = -1
  /\ nz = -1
  /\ a = <<>>
  /\ irn = <<>>
  /\ jcn = <<>>
  /\ rhs = [state |-> "unset", data |-> <<>>]
  /\ id_job = 0
  /\ mumps_instances = 0
  /\ mumps_allocations = 0
  /\ mumps_op = "constructor"
  /\ mumps_exc = "none"
  /\ mumps_job_ran = FALSE

\* the caller's matrix, of dimension at most maxn, and its vectors
CallerInit(maxn, schemes) ==
  /\ matrix \in UNION {SquareMatrices(k, sc) : <<k, sc>> \in (1..maxn) \X schemes}
  /\ dst \in Vectors
  /\ src \in Vectors

\* SparseDirectUMFPACK::SparseDirectUMFPACK ()
UmfInit ==
  /\ Ap = <<>>
  /\ Ai = <<>>
  /\ Ax = <<>>
  /\ symbolic_decomposition = 0
  /\ numeric_decomposition = 0
  /\ factorize_done = FALSE
  /\ copied = NoMatrix
  /\ umf_op = "constructor"
  /\ umf_exc = "none"
  /\ umf_solve_reached = FALSE
  /\ umf_arg_square = TRUE

Init ==
  /\ CallerInit(MaxSolverN, {"tagged"})
  /\ UmfInit
  /\ MumpsInit
  /\ TablesInit({0})
  /\ MapInit({{}})

Next ==
  \/ clear
  \/ factorize
  \/ UMFPACK_initialize
  \/ solve
  \/ solve_matrix
  \/ vmult
  \/ Tvmult
  \/ vmult_add
  \/ Tvmult_add
  \/ SetVectors

Spec == Init /\ [][Next]_vars

\* the factorization alone, on larger matrices
InitSort ==
  /\ CallerInit(MaxN, {"tagged"})
  /\ UmfInit
  /\ MumpsInit
  /\ TablesInit({0})
  /\ MapInit({{}})
  /\ dst = [k \in 1..matrix.n |-> 0]
  /\ src = [k \in 1..matrix.n |-> 0]

NextSort ==
  \/ clear
  \/ factorize

SpecSort == InitSort /\ [][NextSort]_vars

InitMUMPS ==
  /\ CallerInit(MaxSolverN, ValueSchemes)
  /\ UmfInit
  /\ MumpsInit
  /\ TablesInit({0})
  /\ MapInit({{}})

NextMUMPS ==
  \/ MUMPS_initialize_rhs
  \/ MUMPS_initialize
  \/ MUMPS_solve
  \/ MUMPS_vmult
  \/ MUMPS_SetVectors

SpecMUMPS == InitMUMPS /\ [][NextMUMPS]_vars

\* the flags a caller may ask for
InitFlags ==
  /\ CallerInit(1, {"tagged"})
  /\ dst = [k \in 1..matrix.n |-> 0]
  /\ src = [k \in 1..matrix.n |-> 0]
  /\ UmfInit
  /\ MumpsInit
  /\ TablesInit({0})
  /\ MapInit(SUBSET AllFlags)

NextFlags == get_data

SpecFlags == InitFlags /\ [][NextFlags]_vars

\* the flags the transform functions test, and two that imply them
TransformFlags ==
  {"update_covariant_transformation", "update_contravariant_transformation",
   "update_volume_elements", "update_JxW_values", "update_inverse_jacobians",
   "update_jacobians"}

InitTransform ==
  /\ CallerInit(1, {"tagged"})
  /\ dst = [k \in 1..matrix.n |-> 0]
  /\ src = [k \in 1..matrix.n |-> 0]
  /\ UmfInit
  /\ MumpsInit
  /\ TablesInit({0})
  /\ MapInit(SUBSET TransformFlags)

NextTransform ==
  \/ get_data
  \/ transform_1
  \/ transform_2
  \/ transform_3
  \/ transform_4
  \/ transform_5

SpecTransform == InitTransform /\ [][NextTransform]_vars

\* the flags fill_fe_values tests
FillFlags ==
  {"update_JxW_values", "update_volume_elements", "update_covariant_transformation"}

InitFill ==
  /\ CallerInit(1, {"tagged"})
  /\ dst = [k \in 1..matrix.n |-> 0]
  /\ src = [k \in 1..matrix.n |-> 0]
  /\ UmfInit
  /\ MumpsInit
  /\ TablesInit({0})
  /\ MapInit(SUBSET FillFlags)

NextFill ==
  \/ get_data
  \/ fill_fe_values

SpecFill == InitFill /\ [][NextFill]_vars

InitTables ==
  /\ CallerInit(1, {"tagged"})
  /\ dst = [k \in 1..matrix.n |-> 0]
  /\ src = [k \in 1..matrix.n |-> 0]
  /\ UmfInit
  /\ MumpsInit
  /\ TablesInit(1..3)
  /\ MapInit({{}})

NextTables == compute_tables

SpecTables == InitTables /\ [][NextTables]_vars

(***************************************************************************)
(* Properties of SparseDirectUMFPACK                                       *)
(***************************************************************************)
\* C1: solve(rhs) on an object on which no factorize() has happened since
\* construction or the last clear() fails with ExcNotInitialized and does
\* not call umfpack_dl_solve.
C1_SolveNeedsFactorize ==
  (umf_op = "solve" /\ ~factorize_done) =>
    (umf_exc = "ExcNotInitialized" /\ ~umf_solve_reached)

\* solve(rhs) has been called on an object without a factorization
C1_Witness ==
  umf_op = "solve" /\ ~factorize_done /\ umf_exc = "ExcNotInitialized"

SolverArrays == <<Ap, Ai, Ax, symbolic_decomposition, numeric_decomposition>>

\* C8: factorize, initialize(matrix, AdditionalData) and solve(matrix, rhs)
\* on a matrix with m() != n() fail with ExcNotQuadratic and leave Ap, Ai, Ax
\* and both decompositions as they were.
C8_NotQuadraticKeepsState ==
  [][ (umf_op' \in {"factorize", "initialize", "solve_matrix"} /\ ~umf_arg_square')
        => (umf_exc' = "ExcNotQuadratic" /\ ~umf_solve_reached'
            /\ UNCHANGED SolverArrays) ]_vars

\* a non-square matrix was refused while a factorization was stored, and the
\* factorization is still there
C8_Witness ==
  /\ umf_op \in {"factorize", "initialize", "solve_matrix"}
  /\ ~umf_arg_square
  /\ umf_exc = "ExcNotQuadratic"
  /\ numeric_decomposition # 0
  /\ Len(Ai) > 0

\* C9: Tvmult, vmult_add and Tvmult_add fail with ExcNotImplemented in every
\* solver state and change neither dst, src nor the stored factorization.
C9_NotImplementedKeepsState ==
  [][ umf_op' \in {"Tvmult", "vmult_add", "Tvmult_add"}
        => (umf_exc' = "ExcNotImplemented"
            /\ UNCHANGED <<dst, src>> /\ UNCHANGED SolverArrays) ]_vars

\* one of the three was called on a factorized solver with dst # src
C9_Witness ==
  /\ umf_op \in {"Tvmult", "vmult_add", "Tvmult_add"}
  /\ umf_exc = "ExcNotImplemented"
  /\ numeric_decomposition # 0
  /\ dst # src

\* the entries of a matrix row: the diagonal first, the others ascending
DiagonalFirst(M) ==
  \A r \in 1..M.m :
    /\ Len(M.rows[r]) >= 1
    /\ M.rows[r][1].column = r - 1
    /\ \A k \in 2..(Len(M.rows[r]) - 1) : M.rows[r][k].column < M.rows[r][k + 1].column

RowAscending(row) ==
  \A k \in At(Ap, row)..(At(Ap, row + 1) - 2) : At(Ai, k) < At(Ai, k + 1)

\* C10: after factorize on a matrix whose rows store the diagonal first and
\* the other entries in ascending column order, the column indices of every
\* row of Ai are strictly ascending, and a row of at most one entry is as it
\* was copied.
C10_RowsSorted ==
  (copied # NoMatrix /\ DiagonalFirst(copied)) =>
    \A row \in 0..(copied.m - 1) :
      /\ RowAscending(row)
      /\ get_row_length(copied, row) <= 1 =>
           \A k \in At(Ap, row)..(At(Ap, row + 1) - 1) :
             /\ At(Ai, k) = copied.rows[row + 1][k - At(Ap, row) + 1].column
             /\ At(Ax, k) = copied.rows[row + 1][k - At(Ap, row) + 1].value

\* a matrix was factorized whose last row needed two swaps (diagonal 2 before
\* columns 0 and 1) and whose first row holds the diagonal alone
C10_Witness ==
  /\ copied # NoMatrix
  /\ copied.m = 3
  /\ Len(copied.rows[3]) = 3
  /\ Len(copied.rows[1]) = 1
  /\ RowAscending(2)
  /\ At(Ai, At(Ap, 2)) = 0

(***************************************************************************)
(* Properties of SparseDirectMUMPS                                         *)
(***************************************************************************)
\* C3: once an initialize(...) call has completed, initialize_called stays
\* true, and every later initialize(matrix) or initialize(matrix, vector)
\* fails with ExcInitializeAlreadyCalled without starting another MUMPS
\* instance and without reallocating a, irn or jcn.
C3_InitializeOnce ==
  [][ initialize_called = TRUE =>
        /\ initialize_called' = TRUE
        /\ UNCHANGED <<a, irn, jcn, mumps_instances, mumps_allocations>>
        /\ mumps_op' \in {"initialize", "initialize_rhs"} =>
             (mumps_exc' = "ExcInitializeAlreadyCalled" /\ ~mumps_job_ran') ]_vars

\* a second initialize was refused on an initialized object
C3_Witness ==
  /\ mumps_op \in {"initialize", "initialize_rhs"}
  /\ mumps_exc = "ExcInitializeAlreadyCalled"
  /\ initialize_called = TRUE
  /\ mumps_instances = 1
  /\ mumps_allocations = 1

\* C4: solve and vmult fail with ExcNotInitialized when no initialize(...)
\* has completed or when the initialized matrix has no nonzero element; they
\* then run no MUMPS job and leave the output vector as it was.
C4_SolveNeedsInitialize ==
  [][ (mumps_op' \in {"solve", "vmult"} /\ (initialize_called = FALSE \/ nz = 0))
        => (mumps_exc' = "ExcNotInitialized" /\ ~mumps_job_ran'
            /\ UNCHANGED <<dst, id_job, rhs>>) ]_vars

\* vmult was refused on an object initialized with a matrix of zeros only
C4_Witness ==
  /\ mumps_op = "vmult"
  /\ initialize_called = TRUE
  /\ nz = 0
  /\ n > 0
  /\ mumps_exc = "ExcNotInitialized"
  /\ dst # src

(***************************************************************************)
(* Properties of MappingQGeneric                                           *)
(***************************************************************************)
\* the five implication rules of requires_update_flags
FlagsClosed(out) ==
  /\ Flagged(out, {"update_JxW_values", "update_normal_vectors"})
       => "update_boundary_forms" \in out
  /\ Flagged(out, {"update_covariant_transformation", "update_JxW_values",
               "update_jacobians", "update_jacobian_grads",
               "update_boundary_forms", "update_normal_vectors"})
       => "update_contravariant_transformation" \in out
  /\ Flagged(out, {"update_inverse_jacobians", "update_jacobian_pushed_forward_grads",
               "update_jacobian_pushed_forward_2nd_derivatives",
               "update_jacobian_pushed_forward_3rd_derivatives"})
       => "update_covariant_transformation" \in out
  /\ "update_contravariant_transformation" \in out => "update_JxW_values" \in out
  /\ "update_normal_vectors" \in out => "update_JxW_values" \in out

\* C2: the flags requires_update_flags returns (stored by get_data in
\* update_each) contain the flags asked for, are closed under the five
\* implication rules, and are a fixed point of requires_update_flags.
C2_FlagsClosedFixedPoint ==
  data_made =>
    /\ in_flags \subseteq update_each
    /\ FlagsClosed(update_each)
    /\ requires_update_flags(update_each) = update_each

\* get_data has run for a request whose closure takes three passes
C2_Witness ==
  /\ data_made
  /\ in_flags = {"update_jacobian_pushed_forward_grads"}
  /\ "update_boundary_forms" \in update_each

\* the calls C5 is about
CovariantCall ==
  \/ tr_overload \in {"Tensor<1>", "DerivativeForm<1>"} /\ tr_mapping_type = "mapping_covariant"
  \/ tr_overload = "DerivativeForm<2>" /\ tr_mapping_type = "mapping_covariant_gradient"

\* C5: a transform with mapping_covariant (Tensor<1> or DerivativeForm<1>
\* input) or mapping_covariant_gradient (DerivativeForm<2> input) reads
\* data.covariant only if update_covariant_transformation is in update_each,
\* and otherwise fails with ExcAccessToUninitializedField naming that flag.
C5_CovariantReadNeedsFlag ==
  (CovariantCall /\ "update_covariant_transformation" \notin update_each) =>
    /\ "covariant" \notin tr_reads
    /\ tr_exc = "ExcAccessToUninitializedField"
    /\ tr_field = "update_covariant_transformation"

\* the mapping types each transform overload handles
Accepted(overload) ==
  CASE overload = "Tensor<1>" ->
         {"mapping_contravariant", "mapping_piola", "mapping_covariant"}
    [] overload = "DerivativeForm<1>" -> {"mapping_covariant"}
    [] overload = "Tensor<2>" ->
         {"mapping_contravariant", "mapping_piola_gradient",
          "mapping_contravariant_gradient", "mapping_covariant_gradient"}
    [] overload = "DerivativeForm<2>" -> {"mapping_covariant_gradient"}
    [] overload = "Tensor<3>" ->
         {"mapping_piola_hessian", "mapping_contravariant_hessian",
          "mapping_covariant_hessian"}
    [] OTHER -> {}

\* C6: each transform overload fails with ExcNotImplemented, without writing
\* to output, for exactly the mapping types outside its list.
C6_OnlyListedTypes ==
  tr_overload # "none" =>
    IF tr_mapping_type \in Accepted(tr_overload)
    THEN tr_exc # "ExcNotImplemented"
    ELSE tr_exc = "ExcNotImplemented" /\ ~tr_written /\ tr_reads = {}

\* the Tensor<2> overload has refused mapping_covariant, which
\* transform_fields would have handled
C6_Witness ==
  /\ tr_overload = "Tensor<2>"
  /\ tr_mapping_type = "mapping_covariant"
  /\ tr_exc = "ExcNotImplemented"
  /\ "update_contravariant_transformation" \in update_each

\* fill_fe_values has run and computed JxW values
ComputedJxW ==
  /\ fill_similarity \notin {"not_called", "translation"}
  /\ Flagged(update_each, {"update_JxW_values", "update_normal_vectors"})

\* the Jacobian determinant at a quadrature point
Det(point) == determinant(contravariant[point])

\* the statement of C7 as written: a determinant that is not positive raises
\* ExcDistortedMappedCell, and otherwise every JxW value is the weight times
\* the determinant
C7_AsStated ==
  ComputedJxW =>
    IF \E point \in 1..MaxQ : Det(point) <= 0
    THEN fill_exc = "ExcDistortedMappedCell"
    ELSE \A point \in 1..MaxQ : JxW_values[point] = weights[point] * Det(point)

\* C7: for dim == spacedim, whenever fill_fe_values computes JxW values, a
\* quadrature point whose Jacobian determinant is not greater than
\* 1e-12 * (cell diameter / sqrt(dim))^dim raises ExcDistortedMappedCell;
\* if there is no such point, the call raises nothing and JxW_values[point]
\* is weights[point] times the determinant of contravariant[point], for
\* every quadrature point.
C7_DistortedOrJxW ==
  ComputedJxW =>
    IF \E point \in 1..MaxQ : Det(point) <= distortion_bound(cell)
    THEN fill_exc = "ExcDistortedMappedCell"
    ELSE /\ fill_exc = "none"
         /\ \A point \in 1..MaxQ : JxW_values[point] = weights[point] * Det(point)

\* a cell whose determinants are all positive, one of them not above the
\* bound, has been refused
C7_Witness ==
  /\ ComputedJxW
  /\ \A point \in 1..MaxQ : Det(point) > 0
  /\ \E point \in 1..MaxQ : Det(point) < distortion_bound(cell)
  /\ fill_exc = "ExcDistortedMappedCell"

\* the unit point pt moved by one along coordinate i
shifted(pt, i) == [pt EXCEPT ![i] = @ + 1]

\* the difference of two sequences of values, entry by entry
difference(u, v) == [k \in DOMAIN u |-> u[k] - v[k]]

RECURSIVE partial(_, _, _)
\* the partial derivatives of all shape functions of dimension d along the
\* coordinates listed in along, at pt, from the shape values alone.  A shape
\* function is a product of one factor, x or 1 - x, per coordinate, so it
\* has degree one in each coordinate and its derivative along a coordinate
\* is its difference over a unit step.
partial(d, along, pt) ==
  IF along = <<>> THEN table_at(d, "shape_values", pt)
  ELSE difference(partial(d, Tail(along), shifted(pt, Head(along))),
                  partial(d, Tail(along), pt))

\* the entries at one index combination of a table at one unit point, over
\* the shape functions
RECURSIVE entry(_, _)
entry(tensor, index) ==
  IF index = <<>> THEN tensor ELSE entry(tensor[Head(index)], Tail(index))

entries(table, index) == [k \in DOMAIN table |-> entry(table[k], index)]

\* the index combinations of a tensor of the given rank in dimension d
Indices(rank, d) == [1..rank -> 1..d]

\* one filled table holds, at every unit point and index combination, the
\* partial derivatives of the shape values
TableIsDerivative(table, rank) ==
  \A q \in 1..Len(table_points) : \A index \in Indices(rank, table_dim) :
    entries(table[q], index) = partial(table_dim, index, table_points[q])

\* C11: for polynomial degree 1 and dim == spacedim in 1..3, every entry of
\* the first, second, third and fourth derivative tables that
\* compute_shape_function_values fills equals the partial derivative of the
\* hard-coded shape function value, for every shape function, index
\* combination and unit point; the second derivative tables are symmetric
\* and the fourth derivatives are zero.
C11_TablesAreDerivatives ==
  tables_filled =>
    /\ "shape_values" \in table_sized =>
         /\ TableIsDerivative(shape_values, 0)
         /\ \A q \in 1..Len(table_points) : Len(shape_values[q]) = 2 ^ table_dim
    /\ "shape_derivatives" \in table_sized => TableIsDerivative(shape_derivatives, 1)
    /\ "shape_second_derivatives" \in table_sized =>
         /\ TableIsDerivative(shape_second_derivatives, 2)
         /\ \A q \in 1..Len(table_points) : \A k \in 1..(2 ^ table_dim) :
              \A i \in 1..table_dim, j \in 1..table_dim :
                shape_second_derivatives[q][k][i][j]
                  = shape_second_derivatives[q][k][j][i]
    /\ "shape_third_derivatives" \in table_sized =>
         TableIsDerivative(shape_third_derivatives, 3)
    /\ "shape_fourth_derivatives" \in table_sized =>
         /\ TableIsDerivative(shape_fourth_derivatives, 4)
         /\ \A q \in 1..Len(table_points) : \A k \in 1..(2 ^ table_dim) :
              shape_fourth_derivatives[q][k] = zero(4, table_dim)

\* all five tables of a three-dimensional object have been filled at a unit
\* point off the origin, where second derivatives differ from each other
C11_Witness ==
  /\ tables_filled
  /\ table_dim = 3
  /\ table_sized = Tables
  /\ table_points[1] = <<1, 1, 0>>
  /\ shape_second_derivatives[1][1][1][2] = 1
  /\ shape_second_derivatives[1][1][2][3] = 0
  /\ shape_third_derivatives[1][1][1][2][3] = -1

====
